---- MODULE Spec2Model ----
(***************************************************************************)
(* Model of the capture / classify / publish pipeline of project-atom:     *)
(* GestureController (src/src/main_3d.py), Camera (src/src/camera/         *)
(* capture.py), HandTracker (src/src/tracking/hands.py) and                *)
(* GestureDetector (src/src/tracking/gestures.py).                         *)
(*                                                                         *)
(* The main thread (the Ursina update/input callbacks) calls start(),      *)
(* stop(), get_latest_gesture_data() and get_latest_frame(); every         *)
(* start() that opens the camera spawns a thread running _process_loop.    *)
(* Threads interleave at accesses to shared objects: self.running,         *)
(* camera.cap, tracker.hands and the two queue.Queue objects, whose        *)
(* methods are atomic (each queue holds its own mutex).                    *)
(*                                                                         *)
(* Confidences are in hundredths (0.85 is 85).  A landmark list is the     *)
(* sequence of the y coordinates of its points: x and z are never read.    *)
(***************************************************************************)
EXTENDS Integers, Sequences, FiniteSets, TLC

\* ---------------------------------------------------------------- bounds
MaxThreads == 3       \* threads start() can spawn in the frame-channel runs
PipelineThreads == 2  \* threads start() can spawn in the lifecycle runs
MaxFrames == 2        \* frames the camera delivers in a lifecycle run
DecideFrames == 2     \* frames the camera delivers in a decision run
BurstFrames == 3      \* frames the camera delivers in a frame-channel run
MaxY == 2             \* finger points have y in 1..MaxY in a detector run
MaxSkips == 2         \* failed reads in a row that a one-worker run counts

\* ------------------------------------------------- GestureDetector constants
THUMB_TIP == 4
INDEX_TIP == 8
MIDDLE_TIP == 12
RING_TIP == 16
PINKY_TIP == 20
INDEX_PIP == 6
MIDDLE_PIP == 10
RING_PIP == 14
PINKY_PIP == 18
NumLandmarks == 21

\* landmarks[k][1] of the Python code: 0-based index k, y coordinate
Y(landmarks, k) == landmarks[k + 1]

\* is_fist asking for the thumb tip below its joint as well
is_fist_WithThumb(landmarks) ==
    IF landmarks = <<>> \/ Len(landmarks) < NumLandmarks
    THEN FALSE
    ELSE /\ Y(landmarks, THUMB_TIP) > Y(landmarks, THUMB_TIP - 1)
         /\ Y(landmarks, INDEX_TIP) > Y(landmarks, INDEX_PIP)
         /\ Y(landmarks, MIDDLE_TIP) > Y(landmarks, MIDDLE_PIP)
         /\ Y(landmarks, RING_TIP) > Y(landmarks, RING_PIP)
         /\ Y(landmarks, PINKY_TIP) > Y(landmarks, PINKY_PIP)

\* is_fist taking a tip level with its joint for curled
is_fist_NonStrict(landmarks) ==
    IF landmarks = <<>> \/ Len(landmarks) < NumLandmarks
    THEN FALSE
    ELSE /\ Y(landmarks, INDEX_TIP) >= Y(landmarks, INDEX_PIP)
         /\ Y(landmarks, MIDDLE_TIP) >= Y(landmarks, MIDDLE_PIP)
         /\ Y(landmarks, RING_TIP) >= Y(landmarks, RING_PIP)
         /\ Y(landmarks, PINKY_TIP) >= Y(landmarks, PINKY_PIP)

\* lines 33-65
is_fist(landmarks) ==
    IF landmarks = <<>> \/ Len(landmarks) < NumLandmarks
    THEN FALSE
    ELSE LET index_curled == Y(landmarks, INDEX_TIP) > Y(landmarks, INDEX_PIP)
             middle_curled == Y(landmarks, MIDDLE_TIP) > Y(landmarks, MIDDLE_PIP)
             ring_curled == Y(landmarks, RING_TIP) > Y(landmarks, RING_PIP)
             pinky_curled == Y(landmarks, PINKY_TIP) > Y(landmarks, PINKY_PIP)
         IN  index_curled /\ middle_curled /\ ring_curled /\ pinky_curled

\* is_open_palm taking a tip level with its joint for extended
is_open_palm_NonStrict(landmarks) ==
    IF landmarks = <<>> \/ Len(landmarks) < NumLandmarks
    THEN FALSE
    ELSE /\ Y(landmarks, INDEX_TIP) <= Y(landmarks, INDEX_PIP)
         /\ Y(landmarks, MIDDLE_TIP) <= Y(landmarks, MIDDLE_PIP)
         /\ Y(landmarks, RING_TIP) <= Y(landmarks, RING_PIP)
         /\ Y(landmarks, PINKY_TIP) <= Y(landmarks, PINKY_PIP)

\* lines 67-90
is_open_palm(landmarks) ==
    IF landmarks = <<>> \/ Len(landmarks) < NumLandmarks
    THEN FALSE
    ELSE LET index_extended == Y(landmarks, INDEX_TIP) < Y(landmarks, INDEX_PIP)
             middle_extended == Y(landmarks, MIDDLE_TIP) < Y(landmarks, MIDDLE_PIP)
             ring_extended == Y(landmarks, RING_TIP) < Y(landmarks, RING_PIP)
             pinky_extended == Y(landmarks, PINKY_TIP) < Y(landmarks, PINKY_PIP)
         IN  index_extended /\ middle_extended /\ ring_extended /\ pinky_extended

\* detect_gesture judging a list by the fingers it holds, whatever its
\* length
detect_gesture_Partial(landmarks) ==
    LET fingers == {<<INDEX_TIP, INDEX_PIP>>, <<MIDDLE_TIP, MIDDLE_PIP>>,
                    <<RING_TIP, RING_PIP>>, <<PINKY_TIP, PINKY_PIP>>}
        held == {f \in fingers : f[1] + 1 <= Len(landmarks)}
    IN  IF held = {} THEN "none"
        ELSE IF \A f \in held : Y(landmarks, f[1]) > Y(landmarks, f[2]) THEN "fist"
        ELSE IF \A f \in held : Y(landmarks, f[1]) < Y(landmarks, f[2]) THEN "open"
        ELSE "none"

\* lines 92-110
detect_gesture(landmarks) ==
    IF landmarks = <<>> THEN "none"
    ELSE IF is_fist(landmarks) THEN "fist"
    ELSE IF is_open_palm(landmarks) THEN "open"
    ELSE "none"

\* ------------------------------------------------------ landmark source
\* What HandTracker.process_frame can report for a frame: up to max_hands
\* landmark lists and a list of side labels that may be shorter.
max_hands == 2

Tips == {INDEX_TIP, MIDDLE_TIP, RING_TIP, PINKY_TIP}
Pips == {INDEX_PIP, MIDDLE_PIP, RING_PIP, PINKY_PIP}

\* a 21-point hand whose four finger tips are at tipY, or at altY for the
\* fingers in alt; PIP joints and every other point at 5
HandLm(tipY, altY, alt) ==
    [i \in 1..NumLandmarks |->
        IF (i - 1) \in alt THEN altY
        ELSE IF (i - 1) \in Tips THEN tipY
        ELSE 5]

FistLm == HandLm(9, 9, {})
OpenLm == HandLm(1, 1, {})
MixedLm == HandLm(9, 1, {RING_TIP, PINKY_TIP})

SceneLandmarks == {FistLm, OpenLm, MixedLm}
Labels == {"Left", "Right", "Unknown"}

\* The landmark lists a detect_gesture call is followed on: 21-point hands
\* whose finger tips and PIP joints each have a y in 1..MaxY, the thumb tip
\* and the remaining points lying above or below all of them, and the
\* lists of fewer than 21 points that begin a hand of the landmark source.
OffYs == {0, MaxY + 1}
Hands ==
    {[i \in 1..NumLandmarks |->
        IF (i - 1) \in Tips \cup Pips THEN f[i - 1]
        ELSE IF i - 1 = THUMB_TIP THEN thumb
        ELSE rest] :
      f \in [Tips \cup Pips -> 1..MaxY], thumb \in OffYs, rest \in OffYs}
ShortLists ==
    {SubSeq(h, 1, n) : h \in SceneLandmarks, n \in 0..(NumLandmarks - 1)}
DetectorInputs == Hands \cup ShortLists

SeqsUpTo(S, n) == UNION {[1..k -> S] : k \in 0..n}

AllScenes ==
    {[all_landmarks |-> lms, handedness |-> hd] :
        <<lms, hd>> \in {p \in SeqsUpTo(SceneLandmarks, max_hands)
                                 \X SeqsUpTo(Labels, max_hands) :
                            Len(p[2]) <= Len(p[1])}}

\* the scene of the lifecycle specification: a left fist with a right open
\* palm in every frame
PipelineScenes ==
    {[all_landmarks |-> <<FistLm, OpenLm>>, handedness |-> <<"Left", "Right">>]}

\* ------------------------------------------------------------- the loop body
\* the per-hand loop with a plain else for its second branch: a hand that
\* is not Left is taken for the right one
RECURSIVE HandLoop_ElseRight(_, _, _)
HandLoop_ElseRight(results, i, acc) ==
    IF i > Len(results.all_landmarks)
    THEN acc
    ELSE LET hand_label == IF i <= Len(results.handedness)
                           THEN results.handedness[i] ELSE "Unknown"
             gesture == detect_gesture(results.all_landmarks[i])
             clear == IF gesture # "none" THEN 1 ELSE 0
         IN  IF hand_label = "Left"
             THEN HandLoop_ElseRight(results, i + 1,
                           [acc EXCEPT !.left_gesture = gesture,
                                       !.confidence = @ + 100 * clear,
                                       !.gesture_count = @ + clear])
             ELSE HandLoop_ElseRight(results, i + 1,
                           [acc EXCEPT !.right_gesture = gesture,
                                       !.confidence = @ + 100 * clear,
                                       !.gesture_count = @ + clear])

\* lines 399-415: the per-hand loop, as a fold over the hands in order
RECURSIVE HandLoop(_, _, _)
HandLoop(results, i, acc) ==
    IF i > Len(results.all_landmarks)
    THEN acc
    ELSE LET hand_label == IF i <= Len(results.handedness)
                           THEN results.handedness[i] ELSE "Unknown"
             gesture == detect_gesture(results.all_landmarks[i])
             clear == IF gesture # "none" THEN 1 ELSE 0
         IN  IF hand_label = "Left"
             THEN HandLoop(results, i + 1,
                           [acc EXCEPT !.left_gesture = gesture,
                                       !.confidence = @ + 100 * clear,
                                       !.gesture_count = @ + clear])
             ELSE IF hand_label = "Right"
             THEN HandLoop(results, i + 1,
                           [acc EXCEPT !.right_gesture = gesture,
                                       !.confidence = @ + 100 * clear,
                                       !.gesture_count = @ + clear])
             ELSE HandLoop(results, i + 1, acc)

\* lines 417-424: confidence from the hands with a clear gesture
ClearConfidence(confidence, gesture_count, n_hands) ==
    IF gesture_count > 0 THEN confidence \div gesture_count
    ELSE IF n_hands > 0 THEN 50
    ELSE 0

\* the chain with the open-palm tests moved before the single-fist tests
MapGestures_KickFirst(left_gesture, right_gesture, n_hands, confidence) ==
    IF left_gesture = "fist" /\ right_gesture = "fist"
    THEN [pose |-> "boxing", confidence |-> 100]
    ELSE IF left_gesture = "open" /\ right_gesture = "open"
    THEN [pose |-> "dance", confidence |-> 100]
    ELSE IF left_gesture = "open"
    THEN [pose |-> "kick_left", confidence |-> 85]
    ELSE IF right_gesture = "open"
    THEN [pose |-> "kick_right", confidence |-> 85]
    ELSE IF left_gesture = "fist"
    THEN [pose |-> "punch_left", confidence |-> 85]
    ELSE IF right_gesture = "fist"
    THEN [pose |-> "punch_right", confidence |-> 85]
    ELSE [pose |-> "idle", confidence |-> IF n_hands = 0 THEN 0 ELSE 30]

\* the chain whose last branch gives idle no confidence at all
MapGestures_IdleZero(left_gesture, right_gesture, n_hands, confidence) ==
    IF left_gesture = "fist" /\ right_gesture = "fist"
    THEN [pose |-> "boxing", confidence |-> 100]
    ELSE IF left_gesture = "open" /\ right_gesture = "open"
    THEN [pose |-> "dance", confidence |-> 100]
    ELSE IF left_gesture = "fist"
    THEN [pose |-> "punch_left", confidence |-> 85]
    ELSE IF right_gesture = "fist"
    THEN [pose |-> "punch_right", confidence |-> 85]
    ELSE IF left_gesture = "open"
    THEN [pose |-> "kick_left", confidence |-> 85]
    ELSE IF right_gesture = "open"
    THEN [pose |-> "kick_right", confidence |-> 85]
    ELSE [pose |-> "idle", confidence |-> 0]

\* the chain whose last branch leaves confidence as lines 417-424 set it
MapGestures_KeepEnriched(left_gesture, right_gesture, n_hands, confidence) ==
    IF left_gesture = "fist" /\ right_gesture = "fist"
    THEN [pose |-> "boxing", confidence |-> 100]
    ELSE IF left_gesture = "open" /\ right_gesture = "open"
    THEN [pose |-> "dance", confidence |-> 100]
    ELSE IF left_gesture = "fist"
    THEN [pose |-> "punch_left", confidence |-> 85]
    ELSE IF right_gesture = "fist"
    THEN [pose |-> "punch_right", confidence |-> 85]
    ELSE IF left_gesture = "open"
    THEN [pose |-> "kick_left", confidence |-> 85]
    ELSE IF right_gesture = "open"
    THEN [pose |-> "kick_right", confidence |-> 85]
    ELSE [pose |-> "idle", confidence |-> confidence]

\* lines 426-449: the if/elif chain; every branch assigns confidence anew
MapGestures(left_gesture, right_gesture, n_hands, confidence) ==
    IF left_gesture = "fist" /\ right_gesture = "fist"
    THEN [pose |-> "boxing", confidence |-> 100]
    ELSE IF left_gesture = "open" /\ right_gesture = "open"
    THEN [pose |-> "dance", confidence |-> 100]
    ELSE IF left_gesture = "fist"
    THEN [pose |-> "punch_left", confidence |-> 85]
    ELSE IF right_gesture = "fist"
    THEN [pose |-> "punch_right", confidence |-> 85]
    ELSE IF left_gesture = "open"
    THEN [pose |-> "kick_left", confidence |-> 85]
    ELSE IF right_gesture = "open"
    THEN [pose |-> "kick_right", confidence |-> 85]
    ELSE [pose |-> "idle", confidence |-> IF n_hands = 0 THEN 0 ELSE 30]

\* lines 399-457: the dict put on gesture_queue; id is 0 until the dict is
\* put (not a key of the dict: it tells two equal dicts apart)
GestureData(results, id) ==
    LET n_hands == Len(results.all_landmarks)
        g == HandLoop(results, 1,
                      [left_gesture |-> "none", right_gesture |-> "none",
                       confidence |-> 0, gesture_count |-> 0])
        c == ClearConfidence(g.confidence, g.gesture_count, n_hands)
        m == MapGestures(g.left_gesture, g.right_gesture, n_hands, c)
    IN  [id |-> id, pose |-> m.pose, left_gesture |-> g.left_gesture,
         right_gesture |-> g.right_gesture, confidence |-> m.confidence]

NoData == [id |-> 0, pose |-> "-", left_gesture |-> "none",
           right_gesture |-> "none", confidence |-> 0]
NoResults == [all_landmarks |-> <<>>, handedness |-> <<>>]

\* ------------------------------------------------------------------ state
VARIABLES
    running,        \* self.running
    thread,         \* self.thread: 0 is None, else the newest thread
    cap,            \* camera.cap: "None", "opened", "unopened"
    hands_open,     \* tracker.hands has not been closed
    gesture_queue,  \* self.gesture_queue, oldest first
    frame_queue,    \* self.frame_queue, oldest first (annotated frame ids)
    pc,             \* each thread's position in _process_loop
    frame,          \* each thread's local frame (its number, 0 none)
    results,        \* each thread's local results of process_frame
    gesture_data,   \* each thread's local gesture_data
    mpc,            \* the main thread's position
    data,           \* local data of get_latest_gesture_data
    ret,            \* what the call that just ended gave its caller
    nframes,        \* frames the camera has delivered
    frames_cap,     \* frames the camera delivers in this run
    threads_cap,    \* threads start() can spawn in this run
    scenes,         \* what the landmark source can report in this run
    last_gesture,   \* number of dicts put on gesture_queue so far
    last_frame,     \* id of the frame put on frame_queue last
    poll_len,       \* length of gesture_queue when the current poll began
    poll_quiet,     \* nothing was put on gesture_queue since the current poll began
    poll_gets,      \* get_nowait() calls of the current poll that gave a dict
    decided,        \* what was decided for the frames published so far
    skips,          \* read_frame calls in a row that gave no frame
    skips_cap,      \* how far this run counts them
    history,        \* this run keeps what each poll returned last
    got_gesture,    \* id of the dict get_latest_gesture_data returned last
    got_frame,      \* id of the frame get_latest_frame returned last
    landmarks,      \* the landmarks argument of a detect_gesture call
    gesture         \* what that call returned, "-" before it has

vars == <<running, thread, cap, hands_open, gesture_queue, frame_queue, pc,
          frame, results, gesture_data, mpc, data, ret, nframes, frames_cap,
          threads_cap, scenes, last_gesture, last_frame, poll_len, poll_quiet,
          poll_gets, decided, skips, skips_cap, history, got_gesture, got_frame,
          landmarks, gesture>>

Threads == 1..MaxThreads
FRAME_MAXSIZE == 2

NoRet == [op |-> "-", val |-> 0]

\* GestureController.__init__, Camera.__init__, HandTracker.__init__
InitState ==
    /\ running = FALSE
    /\ thread = 0
    /\ cap = "None"
    /\ hands_open = TRUE
    /\ gesture_queue = <<>>
    /\ frame_queue = <<>>
    /\ pc = [t \in Threads |-> "unborn"]
    /\ frame = [t \in Threads |-> 0]
    /\ results = [t \in Threads |-> NoResults]
    /\ gesture_data = [t \in Threads |-> NoData]
    /\ mpc = "idle"
    /\ data = NoData
    /\ ret = NoRet
    /\ nframes = 0
    /\ last_gesture = 0
    /\ last_frame = 0
    /\ poll_len = 0
    /\ poll_quiet = TRUE
    /\ poll_gets = 0
    /\ decided = {}
    /\ skips = 0
    /\ got_gesture = 0
    /\ got_frame = 0

\* no detect_gesture call is followed on its own
NoCall ==
    /\ landmarks = <<>>
    /\ gesture = "-"

Init ==
    /\ InitState
    /\ NoCall
    /\ skips_cap = 0
    /\ history = FALSE
    /\ frames_cap = MaxFrames
    /\ threads_cap = PipelineThreads
    /\ scenes = PipelineScenes

\* ------------------------------------------------------------ main thread
main_vars == <<mpc, data, ret, poll_len, poll_quiet, poll_gets>>
worker_vars == <<pc, frame, results, gesture_data>>
ghost_vars == <<nframes, frames_cap, threads_cap, scenes, last_gesture, last_frame,
                decided, skips, skips_cap, history>>
detector_vars == <<landmarks, gesture>>
delivery_vars == <<got_gesture, got_frame>>

\* what a poll returned last, after it has returned the item id (0: None)
Delivered(got, id) == IF history /\ id # 0 THEN id ELSE got

\* start(): Camera.start() rebinds cap to a new VideoCapture, opened or not
Start ==
    /\ mpc = "idle"
    /\ thread < threads_cap
    /\ \E opened \in BOOLEAN :
        IF ~opened
        THEN /\ cap' = "unopened"
             /\ ret' = [op |-> "start", val |-> FALSE]
             /\ UNCHANGED <<running, thread, pc>>
        ELSE /\ cap' = "opened"
             /\ running' = TRUE
             /\ thread' = thread + 1
             /\ pc' = [pc EXCEPT ![thread + 1] = "loop"]
             /\ ret' = [op |-> "start", val |-> TRUE]
    /\ mpc' = "ret"
    /\ UNCHANGED <<hands_open, gesture_queue, frame_queue, frame, results,
                   gesture_data, data, poll_len, poll_gets, poll_quiet, ghost_vars>>
    /\ UNCHANGED detector_vars
    /\ UNCHANGED delivery_vars

\* stop(), line 383
StopBegin ==
    /\ mpc = "idle"
    /\ running' = FALSE
    /\ mpc' = "stop_join"
    /\ UNCHANGED <<thread, cap, hands_open, gesture_queue, frame_queue,
                   worker_vars, data, ret, poll_len, poll_gets, poll_quiet, ghost_vars>>
    /\ UNCHANGED detector_vars
    /\ UNCHANGED delivery_vars

Alive(t) == pc[t] \notin {"unborn", "done", "raised"}

\* join() without a timeout: it returns only when the thread has ended
StopJoin_Unbounded ==
    /\ mpc = "stop_join"
    /\ \/ thread = 0
       \/ thread # 0 /\ ~Alive(thread)
    /\ mpc' = "stop_close"
    /\ UNCHANGED <<running, thread, cap, hands_open, gesture_queue,
                   frame_queue, worker_vars, data, ret, poll_len, poll_gets, poll_quiet,
                   ghost_vars>>
    /\ UNCHANGED detector_vars
    /\ UNCHANGED delivery_vars

\* stop(), lines 384-385: join(timeout=1.0) returns when the thread has
\* ended, or after a second whatever the thread is doing
StopJoin ==
    /\ mpc = "stop_join"
    /\ \/ thread = 0
       \/ thread # 0 /\ ~Alive(thread)
       \/ thread # 0 /\ Alive(thread)      \* the timeout
    /\ mpc' = "stop_close"
    /\ UNCHANGED <<running, thread, cap, hands_open, gesture_queue,
                   frame_queue, worker_vars, data, ret, poll_len, poll_gets, poll_quiet,
                   ghost_vars>>
    /\ UNCHANGED detector_vars
    /\ UNCHANGED delivery_vars

\* stop(), line 386: HandTracker.close() is self.hands.close(); MediaPipe's
\* SolutionBase.close() raises ValueError when its graph is closed already,
\* and the exception leaves stop() before camera.stop()
StopClose ==
    /\ mpc = "stop_close"
    /\ IF hands_open
       THEN /\ hands_open' = FALSE
            /\ mpc' = "stop_camera"
            /\ ret' = ret
       ELSE /\ hands_open' = hands_open
            /\ mpc' = "ret"
            /\ ret' = [op |-> "stop", val |-> "ValueError"]
    /\ UNCHANGED <<running, thread, cap, gesture_queue, frame_queue,
                   worker_vars, data, poll_len, poll_gets, poll_quiet, ghost_vars>>
    /\ UNCHANGED detector_vars
    /\ UNCHANGED delivery_vars

\* stop(), line 387: Camera.stop() releases cap and sets it to None
StopCamera ==
    /\ mpc = "stop_camera"
    /\ cap' = "None"
    /\ mpc' = "ret"
    /\ ret' = [op |-> "stop", val |-> "None"]
    /\ UNCHANGED <<running, thread, hands_open, gesture_queue, frame_queue,
                   worker_vars, data, poll_len, poll_gets, poll_quiet, ghost_vars>>
    /\ UNCHANGED detector_vars
    /\ UNCHANGED delivery_vars

\* the caller takes the result of the call that ended
Return ==
    /\ mpc = "ret"
    /\ mpc' = "idle"
    /\ ret' = NoRet
    /\ data' = NoData
    /\ poll_len' = 0
    /\ poll_quiet' = TRUE
    /\ poll_gets' = 0
    /\ UNCHANGED <<running, thread, cap, hands_open, gesture_queue,
                   frame_queue, worker_vars, ghost_vars>>
    /\ UNCHANGED detector_vars
    /\ UNCHANGED delivery_vars

\* get_latest_gesture_data(), line 477
PollBegin ==
    /\ mpc = "idle"
    /\ data' = NoData
    /\ mpc' = "poll_empty"
    /\ poll_len' = Len(gesture_queue)
    /\ poll_quiet' = TRUE
    /\ poll_gets' = 0
    /\ UNCHANGED <<running, thread, cap, hands_open, gesture_queue,
                   frame_queue, worker_vars, ret, ghost_vars>>
    /\ UNCHANGED detector_vars
    /\ UNCHANGED delivery_vars

\* line 478: while not self.gesture_queue.empty(); line 483 when it is
PollEmpty ==
    /\ mpc = "poll_empty"
    /\ IF gesture_queue = <<>>
       THEN /\ mpc' = "ret"
            /\ ret' = [op |-> "get_latest_gesture_data", val |-> data]
            /\ got_gesture' = Delivered(got_gesture, data.id)
       ELSE /\ mpc' = "poll_get"
            /\ ret' = ret
            /\ got_gesture' = got_gesture
    /\ UNCHANGED <<running, thread, cap, hands_open, gesture_queue,
                   frame_queue, worker_vars, data, poll_len, poll_gets, poll_quiet,
                   ghost_vars>>
    /\ UNCHANGED detector_vars
    /\ got_frame' = got_frame

\* the drain loop keeping the first value it reads instead of the last
PollGet_KeepFirst ==
    /\ mpc = "poll_get"
    /\ IF gesture_queue = <<>>
       THEN /\ mpc' = "ret"
            /\ ret' = [op |-> "get_latest_gesture_data", val |-> data]
            /\ got_gesture' = Delivered(got_gesture, data.id)
            /\ UNCHANGED <<data, gesture_queue, poll_gets>>
       ELSE /\ data' = IF data = NoData THEN Head(gesture_queue) ELSE data
            /\ gesture_queue' = Tail(gesture_queue)
            /\ poll_gets' = poll_gets + 1
            /\ mpc' = "poll_empty"
            /\ ret' = ret
            /\ got_gesture' = got_gesture
    /\ UNCHANGED <<running, thread, cap, hands_open, frame_queue,
                   worker_vars, poll_len, poll_quiet, ghost_vars>>
    /\ UNCHANGED detector_vars
    /\ got_frame' = got_frame

\* lines 479-482: get_nowait(), queue.Empty breaks out of the loop
PollGet ==
    /\ mpc = "poll_get"
    /\ IF gesture_queue = <<>>
       THEN /\ mpc' = "ret"
            /\ ret' = [op |-> "get_latest_gesture_data", val |-> data]
            /\ got_gesture' = Delivered(got_gesture, data.id)
            /\ UNCHANGED <<data, gesture_queue, poll_gets>>
       ELSE /\ data' = Head(gesture_queue)
            /\ gesture_queue' = Tail(gesture_queue)
            /\ poll_gets' = poll_gets + 1
            /\ mpc' = "poll_empty"
            /\ ret' = ret
            /\ got_gesture' = got_gesture
    /\ UNCHANGED <<running, thread, cap, hands_open, frame_queue,
                   worker_vars, poll_len, poll_quiet, ghost_vars>>
    /\ UNCHANGED detector_vars
    /\ got_frame' = got_frame

\* get_latest_frame() giving the frame it gave last when frame_queue is empty
GetLatestFrame_Stale ==
    /\ mpc = "idle"
    /\ IF frame_queue = <<>>
       THEN /\ ret' = [op |-> "get_latest_frame", val |-> last_frame]
            /\ frame_queue' = frame_queue
            /\ got_frame' = Delivered(got_frame, last_frame)
       ELSE /\ ret' = [op |-> "get_latest_frame", val |-> Head(frame_queue)]
            /\ frame_queue' = Tail(frame_queue)
            /\ got_frame' = Delivered(got_frame, Head(frame_queue))
    /\ mpc' = "ret"
    /\ UNCHANGED <<running, thread, cap, hands_open, gesture_queue,
                   worker_vars, data, poll_len, poll_gets, poll_quiet, ghost_vars>>
    /\ UNCHANGED detector_vars
    /\ got_gesture' = got_gesture


\* get_latest_frame() reading the oldest frame without taking it off
GetLatestFrame_Peek ==
    /\ mpc = "idle"
    /\ IF frame_queue = <<>>
       THEN /\ ret' = [op |-> "get_latest_frame", val |-> 0]
            /\ got_frame' = got_frame
       ELSE /\ ret' = [op |-> "get_latest_frame", val |-> Head(frame_queue)]
            /\ got_frame' = Delivered(got_frame, Head(frame_queue))
    /\ frame_queue' = frame_queue
    /\ mpc' = "ret"
    /\ UNCHANGED <<running, thread, cap, hands_open, gesture_queue,
                   worker_vars, data, poll_len, poll_gets, poll_quiet, ghost_vars>>
    /\ UNCHANGED detector_vars
    /\ got_gesture' = got_gesture

\* get_latest_frame(), lines 485-489: 0 is None
GetLatestFrame ==
    /\ mpc = "idle"
    /\ IF frame_queue = <<>>
       THEN /\ ret' = [op |-> "get_latest_frame", val |-> 0]
            /\ frame_queue' = frame_queue
            /\ got_frame' = got_frame
       ELSE /\ ret' = [op |-> "get_latest_frame", val |-> Head(frame_queue)]
            /\ frame_queue' = Tail(frame_queue)
            /\ got_frame' = Delivered(got_frame, Head(frame_queue))
    /\ mpc' = "ret"
    /\ UNCHANGED <<running, thread, cap, hands_open, gesture_queue,
                   worker_vars, data, poll_len, poll_gets, poll_quiet, ghost_vars>>
    /\ UNCHANGED detector_vars
    /\ got_gesture' = got_gesture

\* ------------------------------------------------------- _process_loop
shared_but_queues == <<running, thread, cap, hands_open>>

\* line 390: while self.running
LoopTest(t) ==
    /\ pc[t] = "loop"
    /\ pc' = [pc EXCEPT ![t] = IF running THEN "read" ELSE "done"]
    /\ UNCHANGED <<shared_but_queues, gesture_queue, frame_queue, frame,
                   results, gesture_data, main_vars, ghost_vars>>
    /\ UNCHANGED detector_vars
    /\ UNCHANGED delivery_vars

\* one more read_frame call in a row without a frame
Skipped(n, cap_n) == IF n < cap_n THEN n + 1 ELSE n

\* line 391, Camera.read_frame lines 41-42: no capture, (False, None), and
\* line 393 continues
ReadFrame(t) ==
    /\ pc[t] = "read"
    /\ pc' = [pc EXCEPT ![t] = IF cap = "None" THEN "loop" ELSE "cap_read"]
    /\ skips' = IF cap = "None" THEN Skipped(skips, skips_cap) ELSE skips
    /\ UNCHANGED <<shared_but_queues, gesture_queue, frame_queue, frame,
                   results, gesture_data, main_vars, nframes, frames_cap,
                   threads_cap, scenes, last_gesture, last_frame, decided,
                   skips_cap, history>>
    /\ UNCHANGED detector_vars
    /\ UNCHANGED delivery_vars

\* the loop leaving at a read without a frame instead of going round
CapRead_BreakOnFailure(t) ==
    /\ pc[t] = "cap_read"
    /\ \/ /\ cap = "None"
          /\ pc' = [pc EXCEPT ![t] = "raised"]
          /\ UNCHANGED <<frame, nframes, skips>>
       \/ /\ cap = "opened"
          /\ nframes < frames_cap
          /\ nframes' = nframes + 1
          /\ frame' = [frame EXCEPT ![t] = nframes + 1]
          /\ pc' = [pc EXCEPT ![t] = "process"]
          /\ skips' = 0
       \/ /\ cap # "None"
          /\ pc' = [pc EXCEPT ![t] = "done"]
          /\ skips' = Skipped(skips, skips_cap)
          /\ UNCHANGED <<frame, nframes>>
    /\ UNCHANGED <<shared_but_queues, gesture_queue, frame_queue, results,
                   gesture_data, main_vars, frames_cap, threads_cap, scenes,
                   last_gesture, last_frame, decided, skips_cap, history>>
    /\ UNCHANGED detector_vars
    /\ UNCHANGED delivery_vars

\* Camera.read_frame lines 44-49: self.cap.read().  When Camera.stop() has
\* set cap to None since line 41, the attribute access raises and the
\* exception ends the thread.  A capture that is open delivers the next
\* frame or fails to; one that did not open fails.
CapRead(t) ==
    /\ pc[t] = "cap_read"
    /\ \/ /\ cap = "None"
          /\ pc' = [pc EXCEPT ![t] = "raised"]
          /\ UNCHANGED <<frame, nframes, skips>>
       \/ /\ cap = "opened"
          /\ nframes < frames_cap
          /\ nframes' = nframes + 1
          /\ frame' = [frame EXCEPT ![t] = nframes + 1]
          /\ pc' = [pc EXCEPT ![t] = "process"]
          /\ skips' = 0
       \/ /\ cap # "None"
          /\ pc' = [pc EXCEPT ![t] = "loop"]
          /\ skips' = Skipped(skips, skips_cap)
          /\ UNCHANGED <<frame, nframes>>
    /\ UNCHANGED <<shared_but_queues, gesture_queue, frame_queue, results,
                   gesture_data, main_vars, frames_cap, threads_cap, scenes,
                   last_gesture, last_frame, decided, skips_cap, history>>
    /\ UNCHANGED detector_vars
    /\ UNCHANGED delivery_vars

\* the loop with two-frame voting: a pose is decided only for a frame whose
\* left and right gesture are those of the dict put before, else idle
ProcessFrame_Vote(t) ==
    /\ pc[t] = "process"
    /\ IF ~hands_open
       THEN /\ pc' = [pc EXCEPT ![t] = "raised"]
            /\ frame' = [frame EXCEPT ![t] = 0]
            /\ UNCHANGED <<results, gesture_data>>
       ELSE \E r \in scenes :
            LET d == GestureData(r, 0)
                prev == IF gesture_queue = <<>> THEN NoData
                        ELSE gesture_queue[Len(gesture_queue)]
                voted == IF /\ prev.left_gesture = d.left_gesture
                            /\ prev.right_gesture = d.right_gesture
                         THEN d
                         ELSE [d EXCEPT !.pose = "idle", !.confidence = 30]
            IN  /\ results' = [results EXCEPT ![t] = r]
                /\ gesture_data' = [gesture_data EXCEPT ![t] = voted]
                /\ pc' = [pc EXCEPT ![t] = "put_gesture"]
                /\ frame' = frame
    /\ UNCHANGED <<shared_but_queues, gesture_queue, frame_queue, main_vars,
                   ghost_vars>>
    /\ UNCHANGED detector_vars
    /\ UNCHANGED delivery_vars

\* lines 395-457: HandTracker.process_frame is self.hands.process(), which
\* raises once the solution has been closed; nothing in the loop catches
\* it, so the thread ends.  Otherwise the landmark source reports a scene
\* and the loop builds gesture_data from it.
ProcessFrame(t) ==
    /\ pc[t] = "process"
    /\ IF ~hands_open
       THEN /\ pc' = [pc EXCEPT ![t] = "raised"]
            /\ frame' = [frame EXCEPT ![t] = 0]
            /\ UNCHANGED <<results, gesture_data>>
       ELSE \E r \in scenes :
            /\ results' = [results EXCEPT ![t] = r]
            /\ gesture_data' = [gesture_data EXCEPT ![t] = GestureData(r, 0)]
            /\ pc' = [pc EXCEPT ![t] = "put_gesture"]
            /\ frame' = frame
    /\ UNCHANGED <<shared_but_queues, gesture_queue, frame_queue, main_vars,
                   ghost_vars>>
    /\ UNCHANGED detector_vars
    /\ UNCHANGED delivery_vars

\* put_nowait on gesture_queue = queue.Queue(): maxsize 0, never Full
PutGesture(q, item) == Append(q, item)

\* the dict as the k-th one put on gesture_queue
Stamp(item, k) == [item EXCEPT !.id = k]

\* what the iteration worked out for its frame: the number of hands, how
\* many of them detect_gesture gave a gesture other than none, and the
\* keys of the dict
Verdict(r, d) ==
    [hands |-> Len(r.all_landmarks),
     clear |-> Cardinality({i \in DOMAIN r.all_landmarks :
                               detect_gesture(r.all_landmarks[i]) # "none"}),
     left_gesture |-> d.left_gesture, right_gesture |-> d.right_gesture,
     pose |-> d.pose, confidence |-> d.confidence]

\* lines 459-462, and line 464: draw_landmarks works on the thread's own
\* frame and results, which are not used after it
PublishGesture(t) ==
    /\ pc[t] = "put_gesture"
    /\ gesture_queue' = PutGesture(gesture_queue, Stamp(gesture_data[t], last_gesture + 1))
    /\ last_gesture' = last_gesture + 1
    /\ decided' = decided \cup {Verdict(results[t], gesture_data[t])}
    /\ poll_quiet' = IF mpc \in {"poll_empty", "poll_get", "ret"} THEN FALSE ELSE poll_quiet
    /\ gesture_data' = [gesture_data EXCEPT ![t] = NoData]
    /\ results' = [results EXCEPT ![t] = NoResults]
    /\ pc' = [pc EXCEPT ![t] = "frame_empty"]
    /\ UNCHANGED <<shared_but_queues, frame_queue, frame, mpc, data,
                   ret, poll_len, poll_gets, nframes, frames_cap, threads_cap, scenes,
                   last_frame, skips, skips_cap, history>>
    /\ UNCHANGED detector_vars
    /\ UNCHANGED delivery_vars

\* the loop putting its frame without taking the queued ones off first
FrameEmpty_NoEvict(t) ==
    /\ pc[t] = "frame_empty"
    /\ pc' = [pc EXCEPT ![t] = "frame_put"]
    /\ UNCHANGED <<shared_but_queues, gesture_queue, frame_queue, frame,
                   results, gesture_data, main_vars, ghost_vars>>
    /\ UNCHANGED detector_vars
    /\ UNCHANGED delivery_vars

\* line 466: while not self.frame_queue.empty()
FrameEmpty(t) ==
    /\ pc[t] = "frame_empty"
    /\ pc' = [pc EXCEPT ![t] = IF frame_queue = <<>> THEN "frame_put" ELSE "frame_get"]
    /\ UNCHANGED <<shared_but_queues, gesture_queue, frame_queue, frame,
                   results, gesture_data, main_vars, ghost_vars>>
    /\ UNCHANGED detector_vars
    /\ UNCHANGED delivery_vars

\* lines 467-470: get_nowait(), queue.Empty breaks out of the loop
FrameGet(t) ==
    /\ pc[t] = "frame_get"
    /\ IF frame_queue = <<>>
       THEN /\ pc' = [pc EXCEPT ![t] = "frame_put"]
            /\ frame_queue' = frame_queue
       ELSE /\ pc' = [pc EXCEPT ![t] = "frame_empty"]
            /\ frame_queue' = Tail(frame_queue)
    /\ UNCHANGED <<shared_but_queues, gesture_queue, frame, results,
                   gesture_data, main_vars, ghost_vars>>
    /\ UNCHANGED detector_vars
    /\ UNCHANGED delivery_vars

\* put_nowait on a queue made without maxsize
PutFrame_Unbounded(q, item) == Append(q, item)

\* put_nowait on frame_queue = queue.Queue(maxsize=2): Full when it holds
\* maxsize items, and line 472 drops the frame
PutFrame(q, item) == IF Len(q) < FRAME_MAXSIZE THEN Append(q, item) ELSE q

\* lines 471-473, then back to line 390
PublishFrame(t) ==
    /\ pc[t] = "frame_put"
    /\ frame_queue' = PutFrame(frame_queue, frame[t])
    /\ last_frame' = IF frame_queue' # frame_queue THEN frame[t] ELSE last_frame
    /\ frame' = [frame EXCEPT ![t] = 0]
    /\ pc' = [pc EXCEPT ![t] = "loop"]
    /\ UNCHANGED <<shared_but_queues, gesture_queue, results, gesture_data, main_vars,
                   nframes, frames_cap, threads_cap, scenes, last_gesture, decided,
                   skips, skips_cap, history>>
    /\ UNCHANGED detector_vars
    /\ UNCHANGED delivery_vars

Worker(t) ==
    \/ LoopTest(t)
    \/ ReadFrame(t)
    \/ CapRead(t)
    \/ ProcessFrame(t)
    \/ PublishGesture(t)
    \/ FrameEmpty(t)
    \/ FrameGet(t)
    \/ PublishFrame(t)

Next ==
    \/ Start
    \/ StopBegin
    \/ StopJoin
    \/ StopClose
    \/ StopCamera
    \/ Return
    \/ PollBegin
    \/ PollEmpty
    \/ PollGet
    \/ GetLatestFrame
    \/ \E t \in Threads : Worker(t)

Spec == Init /\ [][Next]_vars

\* the run in which one worker sees every scene of the landmark source
InitDecide ==
    /\ InitState
    /\ NoCall
    /\ skips_cap = 0
    /\ history = FALSE
    /\ frames_cap = DecideFrames
    /\ threads_cap = 1
    /\ scenes = AllScenes

\* start() once, then the worker alone: the consumer does not poll
NextDecide ==
    \/ Start
    \/ \E t \in Threads : Worker(t)

SpecDecide == InitDecide /\ [][NextDecide]_vars

\* the run in which start() is called again and again and nobody stops the
\* threads: the consumer reads frames only
InitBurst ==
    /\ InitState
    /\ NoCall
    /\ skips_cap = 0
    /\ history = FALSE
    /\ frames_cap = BurstFrames
    /\ threads_cap = MaxThreads
    /\ scenes = PipelineScenes

NextBurst ==
    \/ Start
    \/ Return
    \/ GetLatestFrame
    \/ \E t \in Threads : Worker(t)

SpecBurst == InitBurst /\ [][NextBurst]_vars

\* the lifecycle run of one start(): a single worker, the caller polling
\* and stopping as it likes, failed reads in a row counted
InitSingle ==
    /\ InitState
    /\ NoCall
    /\ frames_cap = MaxFrames
    /\ threads_cap = 1
    /\ scenes = PipelineScenes
    /\ skips_cap = MaxSkips
    /\ history = TRUE

SpecSingle == InitSingle /\ [][Next]_vars

\* the lifecycle run in which every thread of _process_loop that can take
\* a step is scheduled in the end: the calls of an iteration return, and
\* the interpreter hands the GIL on.  Nothing is assumed of the caller.
SpecLive == Init /\ [][Next]_vars /\ \A t \in Threads : WF_vars(Worker(t))

\* the run that follows one detect_gesture call on one landmark list; the
\* detector keeps nothing from call to call
InitDetect ==
    /\ InitState
    /\ frames_cap = 0
    /\ threads_cap = 0
    /\ scenes = {}
    /\ skips_cap = 0
    /\ history = FALSE
    /\ landmarks \in DetectorInputs
    /\ gesture = "-"

DetectGesture ==
    /\ gesture = "-"
    /\ gesture' = detect_gesture(landmarks)
    /\ UNCHANGED <<shared_but_queues, gesture_queue, frame_queue, worker_vars,
                   main_vars, ghost_vars, landmarks>>
    /\ UNCHANGED delivery_vars

NextDetect == DetectGesture

SpecDetect == InitDetect /\ [][NextDetect]_vars

\* ------------------------------------------------------------------ claims
InIteration(t) ==
    pc[t] \in {"read", "cap_read", "process", "put_gesture", "frame_empty",
               "frame_get", "frame_put"}

\* the 7-row table of the specification: "*" matches any gesture
Rows ==
    << [left |-> "fist", right |-> "fist", action |-> "boxing", confidence |-> 100],
       [left |-> "open", right |-> "open", action |-> "dance", confidence |-> 100],
       [left |-> "fist", right |-> "*", action |-> "punch_left", confidence |-> 85],
       [left |-> "*", right |-> "fist", action |-> "punch_right", confidence |-> 85],
       [left |-> "open", right |-> "*", action |-> "kick_left", confidence |-> 85],
       [left |-> "*", right |-> "open", action |-> "kick_right", confidence |-> 85],
       [left |-> "*", right |-> "*", action |-> "idle", confidence |-> 30] >>

RowMatches(i, left, right) ==
    /\ Rows[i].left \in {"*", left}
    /\ Rows[i].right \in {"*", right}

FirstRow(left, right) ==
    CHOOSE i \in 1..Len(Rows) :
        /\ RowMatches(i, left, right)
        /\ \A j \in 1..(i - 1) : ~RowMatches(j, left, right)

RowConfidence(i, n_hands) ==
    IF Rows[i].action = "idle" /\ n_hands = 0 THEN 0 ELSE Rows[i].confidence

\* C1: the dict a worker puts on gesture_queue carries the action and the
\* confidence of the first row of the table that matches its left and right
\* gesture, idle having confidence 0 with no hand in the frame and 0.3
\* with one or more; (fist, open) gives punch_left and (open, fist) gives
\* punch_right.
C1_FirstMatchingRow ==
    [][\A t \in Threads :
        (pc[t] = "put_gesture" /\ pc'[t] # "put_gesture") =>
            LET d == gesture_queue'[Len(gesture_queue')]
                n == Len(results[t].all_landmarks)
                i == FirstRow(d.left_gesture, d.right_gesture)
            IN  /\ Len(gesture_queue') = Len(gesture_queue) + 1
                /\ d.left_gesture \in {"fist", "open", "none"}
                /\ d.right_gesture \in {"fist", "open", "none"}
                /\ d.pose = Rows[i].action
                /\ d.confidence = RowConfidence(i, n)
                /\ (d.left_gesture = "fist" /\ d.right_gesture = "open"
                        => d.pose = "punch_left")
                /\ (d.left_gesture = "open" /\ d.right_gesture = "fist"
                        => d.pose = "punch_right")]_vars

\* a published (open, fist) decision and a published idle one with a hand
\* in view
C1_Witness ==
    /\ \E i \in DOMAIN gesture_queue :
        /\ gesture_queue[i].left_gesture = "open"
        /\ gesture_queue[i].right_gesture = "fist"
        /\ gesture_queue[i].pose = "punch_right"
    /\ \E i \in DOMAIN gesture_queue :
        /\ gesture_queue[i].pose = "idle"
        /\ gesture_queue[i].confidence = 30

\* C2: at most one thread is executing _process_loop.
C2_AtMostOneWorker ==
    Cardinality({t \in Threads : Alive(t)}) <= 1

\* C3: tracker.close() and camera.stop() are executed by stop() only when
\* no thread is inside an iteration of the loop.
C3_ReleaseAfterWorkerStopped ==
    [][((hands_open /\ ~hands_open') \/ (mpc = "stop_camera" /\ mpc' = "ret"))
            => \A t \in Threads : ~InIteration(t)]_vars

\* C4: a stop() that ends has raised nothing and leaves running false and
\* the camera handle released, also before any start() and after a stop().
C4_StopIdempotent ==
    (mpc = "ret" /\ ret.op = "stop") =>
        /\ ret.val = "None"
        /\ ~running
        /\ cap = "None"

HoldsFrame(t) ==
    pc[t] \in {"process", "put_gesture", "frame_empty", "frame_get", "frame_put"}

\* C5: when start() has returned False for a camera that did not open,
\* running is false and no thread holds a frame it will publish.
C5_FailedStart ==
    (mpc = "ret" /\ ret.op = "start" /\ ret.val = FALSE) =>
        /\ ~running
        /\ \A t \in Threads : ~HoldsFrame(t)

\* C6: while running is set no step ends a thread of _process_loop.
C6_LoopEndsOnlyOnStop ==
    [][\A t \in Threads : (running /\ Alive(t)) => Alive(t)']_vars

\* C7: gesture_queue holds at most one item.
C7_OnePendingDecision ==
    Len(gesture_queue) <= 1

\* C8: a get_latest_gesture_data() that began with k >= 1 items on
\* gesture_queue and during which nothing was put returns the item put
\* last and leaves gesture_queue empty.
C8_PollReturnsLast ==
    (/\ mpc = "ret"
     /\ ret.op = "get_latest_gesture_data"
     /\ poll_len >= 1
     /\ poll_quiet) =>
        /\ ret.val # NoData
        /\ ret.val.id = last_gesture
        /\ gesture_queue = <<>>

\* a quiet poll that began with two items or more has returned
C8_Witness ==
    /\ mpc = "ret"
    /\ ret.op = "get_latest_gesture_data"
    /\ poll_len >= 2
    /\ poll_quiet
    /\ ret.val.id = last_gesture

\* C9: a get_latest_frame() that returns a frame returns the one put on
\* frame_queue last and leaves frame_queue empty, so the read after it
\* returns None.
C9_ReadReturnsNewest ==
    [][(mpc = "idle" /\ mpc' = "ret" /\ ret'.op = "get_latest_frame"
            /\ ret'.val # 0)
        => (ret'.val = last_frame /\ frame_queue' = <<>>)]_vars

\* C10: frame_queue never holds more than its maxsize of 2.
C10_FrameCapacity ==
    Len(frame_queue) <= 2

\* frame_queue is full while a third thread is about to put its frame
C10_Witness ==
    /\ Len(frame_queue) = 2
    /\ \E t \in Threads : pc[t] = "frame_put"

\* C11: get_latest_frame() called with frame_queue empty returns None, and
\* get_latest_gesture_data() called with gesture_queue empty and nothing
\* put during the call returns None; neither call waits: whatever the
\* threads do and whether start() was never called, failed, succeeded or
\* stop() has run, the call's next step can be taken.
C11_PollsNonBlocking ==
    /\ [](mpc = "idle" => ENABLED GetLatestFrame /\ ENABLED PollBegin)
    /\ [](mpc = "poll_empty" => ENABLED PollEmpty)
    /\ [](mpc = "poll_get" => ENABLED PollGet)
    /\ [][(mpc = "idle" /\ mpc' = "ret" /\ ret'.op = "get_latest_frame"
                /\ frame_queue = <<>>)
            => (ret'.val = 0 /\ frame_queue' = <<>>)]_vars
    /\ [][(mpc # "ret" /\ mpc' = "ret" /\ ret'.op = "get_latest_gesture_data"
                /\ poll_len = 0 /\ poll_quiet)
            => (ret'.val = NoData /\ gesture_queue' = <<>>)]_vars

\* a poll of the empty gesture_queue has returned None after stop() closed
\* the tracker and released the camera, a worker of an earlier start()
\* having published before
C11_Witness ==
    /\ mpc = "ret"
    /\ ret.op = "get_latest_gesture_data"
    /\ ret.val = NoData
    /\ poll_len = 0
    /\ poll_quiet
    /\ ~running
    /\ ~hands_open
    /\ cap = "None"
    /\ last_gesture >= 1

TipPip == {<<9, 7>>, <<13, 11>>, <<17, 15>>, <<21, 19>>}
AllCurled(h) == \A f \in TipPip : h[f[1]] > h[f[2]]
AllExtended(h) == \A f \in TipPip : h[f[1]] < h[f[2]]

\* C13: detect_gesture returns none for the empty list and for every list
\* of fewer than 21 points; it reads no point of such a list, so nothing
\* is raised.
C13_ShortListIsNone ==
    (gesture # "-" /\ Len(landmarks) < 21) => gesture = "none"

\* the first 20 points of a fist, whose index, middle and ring finger are
\* curled, were given none
C13_Witness ==
    /\ gesture = "none"
    /\ Len(landmarks) = 20
    /\ \A f \in TipPip : f[1] <= 20 => landmarks[f[1]] > landmarks[f[2]]

\* C14: for a list of 21 points detect_gesture returns fist exactly when
\* each of the points 8, 12, 16, 20 has a y strictly greater than the y of
\* point 6, 10, 14, 18; the result is decided by these eight values, so no
\* other point influences it.
C14_FistIffAllCurled ==
    (gesture # "-" /\ Len(landmarks) = 21) =>
        (gesture = "fist" <=> AllCurled(landmarks))

\* a fist whose thumb tip lies above every other point
C14_Witness ==
    /\ gesture = "fist"
    /\ Len(landmarks) = 21
    /\ landmarks[5] = 0
    /\ landmarks[4] = MaxY + 1

\* C15: for a list of 21 points detect_gesture returns open exactly when
\* each of the four finger tips has a y strictly less than the y of its
\* PIP joint.
C15_OpenIffAllExtended ==
    (gesture # "-" /\ Len(landmarks) = 21) =>
        (gesture = "open" <=> AllExtended(landmarks))

\* an open palm whose thumb tip lies below every other point
C15_Witness ==
    /\ gesture = "open"
    /\ Len(landmarks) = 21
    /\ landmarks[5] = MaxY + 1
    /\ landmarks[4] = 0

\* C16: detect_gesture returns none whenever the four fingers are neither
\* all curled nor all extended, so whenever a tip is level with its PIP
\* joint; is_fist and is_open_palm never both hold, and asking
\* is_open_palm first gives the same result.
C16_NoneOtherwise ==
    (gesture # "-" /\ Len(landmarks) = 21) =>
        /\ (~AllCurled(landmarks) /\ ~AllExtended(landmarks)) => gesture = "none"
        /\ (\E f \in TipPip : landmarks[f[1]] = landmarks[f[2]]) => gesture = "none"
        /\ ~(is_fist(landmarks) /\ is_open_palm(landmarks))
        /\ gesture = (IF is_open_palm(landmarks) THEN "open"
                      ELSE IF is_fist(landmarks) THEN "fist"
                      ELSE "none")

\* a hand whose index tip is level with its PIP joint while the other
\* three fingers are curled was given none
C16_Witness ==
    /\ gesture = "none"
    /\ Len(landmarks) = 21
    /\ landmarks[9] = landmarks[7]
    /\ \A f \in TipPip \ {<<9, 7>>} : landmarks[f[1]] > landmarks[f[2]]

\* C17: the pose and the confidence of a published dict are a function of
\* its left gesture, its right gesture and the number of hands of its
\* frame: two frames that agree in the three agree in both, whatever was
\* processed and published before them.
C17_DecisionIsFunction ==
    \A a, b \in decided :
        (/\ a.left_gesture = b.left_gesture
         /\ a.right_gesture = b.right_gesture
         /\ a.hands = b.hands)
            => (a.pose = b.pose /\ a.confidence = b.confidence)

\* two frames that differ were published: both show two hands with a left
\* fist and no right gesture, in one of them the second hand is a fist or
\* an open palm of no known side
C17_Witness ==
    /\ last_gesture >= 2
    /\ \E a, b \in decided :
        /\ a # b
        /\ a.left_gesture = "fist" /\ b.left_gesture = "fist"
        /\ a.right_gesture = "none" /\ b.right_gesture = "none"
        /\ a.hands = 2 /\ b.hands = 2
        /\ a.pose = "punch_left" /\ b.pose = "punch_left"

\* C18: the confidence of every published dict is 0.0, 0.3, 0.85 or 1.0,
\* and it is 0.0 exactly when the frame showed no hand.
C18_ConfidenceValues ==
    \A d \in decided :
        /\ d.confidence \in {0, 30, 85, 100}
        /\ d.confidence = 0 <=> d.hands = 0

\* a frame without a hand and a frame with a hand and no gesture were
\* published
C18_Witness ==
    /\ \E d \in decided : d.hands = 0 /\ d.confidence = 0
    /\ \E d \in decided : d.hands >= 1 /\ d.pose = "idle" /\ d.confidence = 30

\* C19 as stated: a frame with one hand or more of which detect_gesture
\* gave none to each is published with confidence 0.5.
C19_EnrichedHalf ==
    \A d \in decided :
        (d.hands >= 1 /\ d.clear = 0) => d.confidence = 50

\* C19 amended: for such a frame lines 417-424 set confidence to 0.5 and
\* the last branch of the chain, line 449, replaces it: the dict is
\* published as idle with confidence 0.3.
C19_EnrichedOverridden ==
    \A d \in decided :
        (d.hands >= 1 /\ d.clear = 0) =>
            /\ ClearConfidence(0, 0, d.hands) = 50
            /\ d.pose = "idle"
            /\ d.confidence = 30

\* a frame of two hands, none of them a fist or an open palm, was published
C19_Witness ==
    \E d \in decided : d.hands = 2 /\ d.clear = 0 /\ d.confidence = 30

\* C20: a thread of _process_loop that is alive when stop() has cleared
\* running leaves the loop in the end, whatever the caller does next.
C20_WorkerLeavesAfterStop ==
    \A t \in Threads : (mpc = "stop_join" /\ Alive(t)) ~> ~Alive(t)

\* the pipeline is idle: the flag is clear and no thread of _process_loop
\* is alive
Idle == ~running /\ \A t \in Threads : ~Alive(t)

\* C21: a Running episode begins only from Idle and ends only by stop()
\* clearing the flag: start() sets running and spawns a thread only when
\* the flag is clear and no thread of an earlier start() is alive.
C21_LifecycleTransitions ==
    [][/\ (thread' # thread \/ (~running /\ running')) => Idle
       /\ (running /\ ~running') => (mpc = "idle" /\ mpc' = "stop_join")]_vars

\* C22: a read_frame call that returns without a frame is followed by
\* line 393: the step takes the thread back to the loop test, with nothing
\* put on or taken from either queue, no landmark results made and no
\* dict built; the thread is alive after it, however many such reads came
\* before.
C22_FailedReadSkips ==
    [][\A t \in Threads :
        LET failed == \/ pc[t] = "read" /\ cap = "None"
                      \/ pc[t] = "cap_read" /\ cap # "None" /\ frame'[t] = 0
        IN  (failed /\ pc'[t] # pc[t]) =>
                /\ pc'[t] = "loop"
                /\ Alive(t)'
                /\ UNCHANGED <<gesture_queue, frame_queue, results,
                               gesture_data, last_gesture, last_frame, decided>>]_vars

\* the worker is going round again after MaxSkips reads in a row gave no
\* frame, a dict and a frame of an earlier iteration still being queued
C22_Witness ==
    /\ skips = MaxSkips
    /\ running
    /\ \E t \in Threads : pc[t] = "read"
    /\ gesture_queue # <<>>
    /\ frame_queue # <<>>

\* C23: the put of a dict on gesture_queue changes the queue at once and
\* the dict put is its newest item; when the queue already holds its one
\* pending item, the oldest item is dropped for the new one.
C23_PublishDropsOldest ==
    [][\A t \in Threads :
        (pc[t] = "put_gesture" /\ pc'[t] # "put_gesture") =>
            /\ gesture_queue' # <<>>
            /\ gesture_queue'[Len(gesture_queue')].id = last_gesture'
            /\ gesture_queue # <<>> =>
                   gesture_queue' = Append(Tail(gesture_queue),
                                           gesture_queue'[Len(gesture_queue')])]_vars

\* running is clear and no stop() is under way: stop() has returned, or
\* start() was never called
StopReturned ==
    /\ ~running
    /\ mpc \notin {"stop_join", "stop_close", "stop_camera"}

\* C24: from the return of stop() to the next start(), the two queues are
\* changed by the steps of the caller's polls only: no thread puts a dict
\* or a frame, or takes a frame off.
C24_QuietAfterStop ==
    [][(StopReturned
            /\ (gesture_queue' # gesture_queue \/ frame_queue' # frame_queue))
        => mpc' # mpc]_vars

\* C25: a thread that calls tracker.process_frame while running is set
\* calls it on a tracker that has not been closed: also the worker of a
\* start() that follows a stop().
C25_TrackerOpenWhenRunning ==
    [][\A t \in Threads :
        (running /\ pc[t] = "process" /\ pc'[t] # "process") => hands_open]_vars

C27_IncreasingDelivery ==
    [][(mpc # "ret" /\ mpc' = "ret") =>
        /\ (ret'.op = "get_latest_gesture_data" /\ ret'.val # NoData)
                => ret'.val.id > got_gesture
        /\ (ret'.op = "get_latest_frame" /\ ret'.val # 0)
                => ret'.val > got_frame]_vars

\* the first dict and the first frame have been returned by earlier polls,
\* and a poll is taking the second dict off while the second frame waits
C27_Witness ==
    /\ mpc = "poll_get"
    /\ got_gesture = 1
    /\ got_frame = 1
    /\ gesture_queue # <<>>
    /\ Head(gesture_queue).id = 2
    /\ frame_queue = <<2>>

\* C28: with one worker frame_queue never holds more than one frame, and
\* the put that follows the eviction loop finds room: the frame is put
\* and becomes the only one queued, the Full branch is not taken.
C28_SingleWorkerFrameSlot ==
    /\ [](Len(frame_queue) <= 1)
    /\ [][\A t \in Threads :
            (pc[t] = "frame_put" /\ pc'[t] # "frame_put") =>
                (Len(frame_queue) < FRAME_MAXSIZE /\ frame_queue' = <<frame[t]>>)]_vars

\* the second frame is the only one queued and no frame was ever read:
\* the worker took the first one off before it put the second
C28_Witness ==
    /\ frame_queue = <<2>>
    /\ got_frame = 0
    /\ last_frame = 2

\* C29: an iteration that read a frame puts one dict and then one frame:
\* the thread goes from process_frame to the put on gesture_queue and from
\* there to the put on frame_queue.  So the dicts put so far are as many
\* as the frames put so far or one more, and a frame the consumer gets was
\* put after the dict of its iteration.
C29_DecisionThenFrame ==
    /\ [](last_gesture - last_frame \in {0, 1})
    /\ [][\A t \in Threads :
            /\ (pc[t] = "process" /\ pc'[t] # "process")
                    => (pc'[t] = "put_gesture" /\ last_gesture' = last_gesture)
            /\ (pc[t] = "put_gesture" /\ pc'[t] # "put_gesture")
                    => (pc'[t] = "frame_empty" /\ last_gesture' = last_gesture + 1
                            /\ last_gesture' = frame[t])
            /\ (pc[t] = "frame_put" /\ pc'[t] # "frame_put")
                    => (last_frame' = frame[t] /\ last_frame' = last_gesture)]_vars
    /\ [][(mpc = "idle" /\ mpc' = "ret" /\ ret'.op = "get_latest_frame"
                /\ ret'.val # 0)
            => ret'.val <= last_gesture]_vars

\* the scene r from hand i on without the hands whose label is not Left
\* or Right or is missing
RECURSIVE KeepSided(_, _)
KeepSided(r, i) ==
    IF i > Len(r.all_landmarks)
    THEN NoResults
    ELSE LET rest == KeepSided(r, i + 1)
         IN  IF i <= Len(r.handedness) /\ r.handedness[i] \in {"Left", "Right"}
             THEN [all_landmarks |-> <<r.all_landmarks[i]>> \o rest.all_landmarks,
                   handedness |-> <<r.handedness[i]>> \o rest.handedness]
             ELSE rest

\* C30: the dict put for a frame has the pose, the left gesture and the
\* right gesture of the same frame without its hands of no side, whatever
\* the gesture of those hands; its confidence is the same too, but for
\* idle, which has 0.3 as soon as the frame shows a hand of any kind.
C30_UnsidedHandOnlyCounts ==
    [][\A t \in Threads :
        (pc[t] = "put_gesture" /\ pc'[t] # "put_gesture") =>
            LET d == gesture_queue'[Len(gesture_queue')]
                r == results[t]
                d0 == GestureData(KeepSided(r, 1), 0)
            IN  /\ d.pose = d0.pose
                /\ d.left_gesture = d0.left_gesture
                /\ d.right_gesture = d0.right_gesture
                /\ d.confidence = IF d0.pose = "idle" /\ Len(r.all_landmarks) > 0
                                  THEN 30 ELSE d0.confidence]_vars

\* a frame with a left open palm and a fist of no side was published as
\* kick_left, and a frame whose only hand is a fist of no side as idle
\* with confidence 0.3
C30_Witness ==
    /\ \E d \in decided :
        /\ d.hands = 2 /\ d.clear = 2
        /\ d.left_gesture = "open" /\ d.right_gesture = "none"
        /\ d.pose = "kick_left"
    /\ \E d \in decided :
        /\ d.hands = 1 /\ d.clear = 1
        /\ d.left_gesture = "none" /\ d.right_gesture = "none"
        /\ d.pose = "idle" /\ d.confidence = 30

====
